---- MODULE Spec2Model ----
(***************************************************************************)
(* Model of scripts/stt_capture.py: one capture session.  The main thread  *)
(* parses its arguments, sets up the VAD and the recognizer, opens the raw *)
(* input stream and runs the capture loop; the audio callback (producer)   *)
(* puts raw chunks on the queue q.  Time is counted in ticks of 100 ms,    *)
(* the timeout of q.get; durations of the segmenter are in milliseconds.   *)
(* Bytes carry their position in the captured stream as identity, so that  *)
(* loss, duplication and reordering are visible.                           *)
(***************************************************************************)
EXTENDS Integers, Sequences, FiniteSets, TLC

VARIABLES
    pc,                     \* position of the main thread
    args,                   \* parsed command line (samplerate, max_seconds, silence_ms)
    now,                    \* time.time(), in ticks
    start_time,             \* line 71
    streamOpen,             \* the RawInputStream context is active (callback may run)
    q,                      \* queue.Queue of raw chunks
    byte_buffer,            \* line 74
    frame,                  \* line 110
    is_speech,              \* line 114
    speech_started,         \* line 62
    non_speech_ms,          \* line 63
    consecutive_speech_ms,  \* line 67
    stdout,                 \* lines printed to the primary output
    exit_status,            \* process exit status (-1 while running)
    verdict,                \* how the loop was left: Continue / SilenceTimeout / MaxDurationReached
    error,                  \* which error aborted the session ("none" if none)
    produced,               \* bytes enqueued by the callback so far
    vadScript,              \* -1: any classification; k >= 0: first k frames speech, rest non-speech
    dequeuedStream,         \* history: concatenation of the chunks taken from q
    slicedStream,           \* history: concatenation of the frames sliced from byte_buffer
    classified,             \* history: number of frames vad.is_speech returned for
    accepted,               \* history: number of frames rec.AcceptWaveform took
    hist,                   \* history: classifications of the frames whose status update ran
    finalCalls,             \* history: number of rec.FinalResult calls
    lateChunks              \* history: number of chunks dequeued while elapsed > max_seconds

vars == <<pc, args, now, start_time, streamOpen, q, byte_buffer, frame, is_speech,
          speech_started, non_speech_ms, consecutive_speech_ms, stdout, exit_status,
          verdict, error, produced, vadScript, dequeuedStream,
          slicedStream, classified, accepted, hist, finalCalls, lateChunks>>

----------------------------------------------------------------------------
(* Program constants *)

frame_duration_ms == 30

MIN_SPEECH_RUN_MS == 150

PollTicks == 1

ArgparseExitStatus == 2

(* Bounds of the model *)

MaxFrames == 7

MaxQueue == 2

MaxStart == 1

MaxOverrun == 1

MaxScenarioFrames == 86

SampleRates == {100}

MaxSecondsChoices == {1}

SilenceChoices == {0, 60}

----------------------------------------------------------------------------
(* Helpers *)

Min(a, b) == IF a < b THEN a ELSE b

Iota(lo, n) == [i \in 1..n |-> lo + i]

Drop(s, n) == SubSeq(s, n + 1, Len(s))

Take(s, n) == SubSeq(s, 1, n)

\* int(args.samplerate * frame_duration_ms / 1000)
frame_samples == (args.samplerate * frame_duration_ms) \div 1000

\* int16 = 2 bytes
frame_bytes == frame_samples * 2

elapsed == now - start_time

ResultLine(text) == [text |-> text, error |-> "none"]

ErrorLine(msg) == [text |-> "", error |-> msg]

Running == pc # "exited"

LoopPositions == {"check", "get", "slice", "vad", "accept", "update"}

InLoop == pc \in LoopPositions

----------------------------------------------------------------------------
(* The segmenter: lines 120-147 *)

\* the run threshold compared with > instead of >=
SpeechRunConfirmedStrict(ms) == ms > MIN_SPEECH_RUN_MS

\* lines 127 and 138: consecutive_speech_ms >= MIN_SPEECH_RUN_MS
SpeechRunConfirmed(ms) == ms >= MIN_SPEECH_RUN_MS

\* the silence check without the speech_started guard
SilenceLimitIgnoresStart(started, ns, silence) == ns >= silence

\* the silence limit compared with > instead of >=
SilenceLimitStrict(started, ns, silence) == started /\ ns > silence

\* line 147: speech_started and non_speech_ms >= args.silence_ms
SilenceLimitReached(started, ns, silence) == started /\ ns >= silence

\* the max duration compared with >= instead of >
MaxDurationInclusive(el, max) == el >= max

\* line 92: elapsed > args.max_seconds
MaxDurationExceeded(el, max) == el > max

\* the status update with non_speech_ms assigned instead of accumulated
UpdateStatusAssigns(st, sp) ==
    IF sp
    THEN LET c       == st.consecutive_speech_ms + frame_duration_ms
             starts  == ~st.speech_started /\ SpeechRunConfirmed(c)
             started == st.speech_started \/ starts
             ns1     == IF starts THEN 0 ELSE st.non_speech_ms
             ns2     == IF started /\ SpeechRunConfirmed(c) THEN 0 ELSE ns1
         IN  [speech_started |-> started, non_speech_ms |-> ns2,
              consecutive_speech_ms |-> c]
    ELSE [speech_started |-> st.speech_started,
          non_speech_ms |-> IF st.speech_started
                            THEN frame_duration_ms
                            ELSE st.non_speech_ms,
          consecutive_speech_ms |-> 0]

\* the status update with speech_started following the current run instead of latching
UpdateStatusUnlatched(st, sp) ==
    IF sp
    THEN LET c       == st.consecutive_speech_ms + frame_duration_ms
             starts  == ~st.speech_started /\ SpeechRunConfirmed(c)
             started == SpeechRunConfirmed(c)
             ns1     == IF starts THEN 0 ELSE st.non_speech_ms
             ns2     == IF started /\ SpeechRunConfirmed(c) THEN 0 ELSE ns1
         IN  [speech_started |-> started, non_speech_ms |-> ns2,
              consecutive_speech_ms |-> c]
    ELSE [speech_started |-> st.speech_started,
          non_speech_ms |-> IF st.speech_started
                            THEN st.non_speech_ms + frame_duration_ms
                            ELSE st.non_speech_ms,
          consecutive_speech_ms |-> 0]

\* the status update with the silence reset on every speech frame
UpdateStatusResetsOnAnySpeech(st, sp) ==
    IF sp
    THEN LET c       == st.consecutive_speech_ms + frame_duration_ms
             starts  == ~st.speech_started /\ SpeechRunConfirmed(c)
             started == st.speech_started \/ starts
         IN  [speech_started |-> started, non_speech_ms |-> 0,
              consecutive_speech_ms |-> c]
    ELSE [speech_started |-> st.speech_started,
          non_speech_ms |-> IF st.speech_started
                            THEN st.non_speech_ms + frame_duration_ms
                            ELSE st.non_speech_ms,
          consecutive_speech_ms |-> 0]

\* the status update counting silence before speech has started
UpdateStatusCountsBeforeStart(st, sp) ==
    IF sp
    THEN LET c       == st.consecutive_speech_ms + frame_duration_ms
             starts  == ~st.speech_started /\ SpeechRunConfirmed(c)
             started == st.speech_started \/ starts
             ns2     == IF started /\ SpeechRunConfirmed(c) THEN 0 ELSE st.non_speech_ms
         IN  [speech_started |-> started, non_speech_ms |-> ns2,
              consecutive_speech_ms |-> c]
    ELSE [speech_started |-> st.speech_started,
          non_speech_ms |-> st.non_speech_ms + frame_duration_ms,
          consecutive_speech_ms |-> 0]

\* the status update counting a speech frame of an unconfirmed run as silence
UpdateStatusShortRunIsSilence(st, sp) ==
    IF sp
    THEN LET c       == st.consecutive_speech_ms + frame_duration_ms
             starts  == ~st.speech_started /\ SpeechRunConfirmed(c)
             started == st.speech_started \/ starts
             ns2     == IF started /\ SpeechRunConfirmed(c) THEN 0
                        ELSE IF started THEN st.non_speech_ms + frame_duration_ms
                        ELSE st.non_speech_ms
         IN  [speech_started |-> started, non_speech_ms |-> ns2,
              consecutive_speech_ms |-> c]
    ELSE [speech_started |-> st.speech_started,
          non_speech_ms |-> IF st.speech_started
                            THEN st.non_speech_ms + frame_duration_ms
                            ELSE st.non_speech_ms,
          consecutive_speech_ms |-> 0]

\* lines 120-145: the status update for one classified frame
UpdateStatus(st, sp) ==
    IF sp
    THEN LET c       == st.consecutive_speech_ms + frame_duration_ms
             starts  == ~st.speech_started /\ SpeechRunConfirmed(c)
             started == st.speech_started \/ starts
             ns1     == IF starts THEN 0 ELSE st.non_speech_ms
             ns2     == IF started /\ SpeechRunConfirmed(c) THEN 0 ELSE ns1
         IN  [speech_started |-> started, non_speech_ms |-> ns2,
              consecutive_speech_ms |-> c]
    ELSE [speech_started |-> st.speech_started,
          non_speech_ms |-> IF st.speech_started
                            THEN st.non_speech_ms + frame_duration_ms
                            ELSE st.non_speech_ms,
          consecutive_speech_ms |-> 0]

SegmenterState ==
    [speech_started |-> speech_started, non_speech_ms |-> non_speech_ms,
     consecutive_speech_ms |-> consecutive_speech_ms]

----------------------------------------------------------------------------
(* Inputs of a session *)

Scripted == vadScript >= 0

\* what vad.is_speech may return for the n-th classified frame
VadOutcomes(n) == IF Scripted THEN {n <= vadScript} ELSE BOOLEAN

\* sizes of the chunks the callback receives; blocksize=frame_samples asks for
\* one frame per chunk, the buffer code copes with any size
ChunkSizes ==
    IF Scripted THEN {frame_bytes}
    ELSE {frame_bytes - 1, frame_bytes, 2 * frame_bytes + 1}

FrameLimit == IF Scripted THEN MaxScenarioFrames ELSE MaxFrames

ClockLimit ==
    IF pc = "setup" THEN MaxStart
    ELSE start_time + args.max_seconds + MaxOverrun

----------------------------------------------------------------------------
(* Initial state: the process has been started with some command line *)

InitCommon ==
    /\ pc = "parse"
    /\ now = 0
    /\ start_time = 0
    /\ streamOpen = FALSE
    /\ q = <<>>
    /\ byte_buffer = <<>>
    /\ frame = <<>>
    /\ is_speech = FALSE
    /\ speech_started = FALSE
    /\ non_speech_ms = 0
    /\ consecutive_speech_ms = 0
    /\ stdout = <<>>
    /\ exit_status = -1
    /\ verdict = "Continue"
    /\ error = "none"
    /\ produced = 0
    /\ dequeuedStream = <<>>
    /\ slicedStream = <<>>
    /\ classified = 0
    /\ accepted = 0
    /\ hist = <<>>
    /\ finalCalls = 0
    /\ lateChunks = 0

Init ==
    /\ InitCommon
    /\ args \in [samplerate : SampleRates, max_seconds : MaxSecondsChoices,
                 silence_ms : SilenceChoices]
    /\ vadScript = -1

\* the sessions whose termination is checked: any producer, one configuration
InitFair ==
    /\ InitCommon
    /\ args \in [samplerate : SampleRates, max_seconds : MaxSecondsChoices,
                 silence_ms : {60}]
    /\ vadScript = -1

\* sample rates as --samplerate (type=int) takes them, at the scale of the
\* model: 100 Hz gives 3 samples per 30 ms frame, 50 Hz gives 1.5
ConfigRates == {50, 100}

\* the sessions whose frame size is checked: any accepted sample rate
InitConfig ==
    /\ InitCommon
    /\ args \in [samplerate : ConfigRates, max_seconds : MaxSecondsChoices,
                 silence_ms : {60}]
    /\ vadScript = -1

\* Scenario A of the specification and its neighbours: one frame per chunk,
\* k speech frames followed by non-speech frames only
InitScenario ==
    /\ InitCommon
    /\ args \in [samplerate : SampleRates, max_seconds : {1}, silence_ms : {50, 2200}]
    /\ vadScript \in 5..10

----------------------------------------------------------------------------
(* The audio callback (producer thread): lines 57-60 *)

Callback ==
    /\ streamOpen
    /\ Len(q) < MaxQueue
    /\ \E n \in ChunkSizes :
          /\ produced + n <= FrameLimit * frame_bytes
          /\ q' = Append(q, Iota(produced, n))
          /\ produced' = produced + n
    /\ UNCHANGED <<pc, args, now, start_time, streamOpen, byte_buffer, frame, is_speech,
                   speech_started, non_speech_ms, consecutive_speech_ms, stdout,
                   exit_status, verdict, error, vadScript, dequeuedStream,
                   slicedStream, classified, accepted, hist, finalCalls, lateChunks>>

(* The wall clock *)

Tick ==
    /\ pc \in {"setup"} \cup LoopPositions
    /\ now < ClockLimit
    /\ now' = now + 1
    /\ UNCHANGED <<pc, args, start_time, streamOpen, q, byte_buffer, frame, is_speech,
                   speech_started, non_speech_ms, consecutive_speech_ms, stdout,
                   exit_status, verdict, error, produced, vadScript, dequeuedStream,
                   slicedStream, classified, accepted, hist, finalCalls, lateChunks>>

----------------------------------------------------------------------------
(* The main thread *)

\* the handler without its sys.exit(1): control falls to the final result
ExceptExceptionFallsThrough(msg) ==
    /\ stdout' = Append(stdout, ErrorLine(msg))
    /\ error' = msg
    /\ pc' = "final"
    /\ streamOpen' = FALSE
    /\ UNCHANGED <<args, now, start_time, q, byte_buffer, frame, is_speech,
                   speech_started, non_speech_ms, consecutive_speech_ms, verdict,
                   produced, vadScript, dequeuedStream, slicedStream, classified,
                   accepted, hist, finalCalls, exit_status, lateChunks>>

\* lines 157-160: except Exception: print the error result, sys.exit(1);
\* leaving the with block closes the stream
ExceptException(msg) ==
    /\ stdout' = Append(stdout, ErrorLine(msg))
    /\ exit_status' = 1
    /\ error' = msg
    /\ pc' = "exited"
    /\ streamOpen' = FALSE
    /\ UNCHANGED <<args, now, start_time, q, byte_buffer, frame, is_speech,
                   speech_started, non_speech_ms, consecutive_speech_ms, verdict,
                   produced, vadScript, dequeuedStream, slicedStream, classified,
                   accepted, hist, finalCalls, lateChunks>>

\* StopIteration caught by the except Exception clause instead of its own
ExceptStopAsError ==
    /\ stdout' = Append(stdout, ErrorLine("Done"))
    /\ exit_status' = 1
    /\ error' = "Done"
    /\ pc' = "exited"
    /\ streamOpen' = FALSE

\* the stop leaving only the inner while loop: polling goes on
ExceptStopBreaksInnerLoop ==
    /\ pc' = "check"
    /\ UNCHANGED <<streamOpen, stdout, exit_status, error>>

\* lines 155-156: except StopIteration: pass; control falls to line 163
ExceptStopIteration ==
    /\ pc' = "final"
    /\ streamOpen' = FALSE
    /\ UNCHANGED <<stdout, exit_status, error>>

\* lines 20-38: the command line parses
ParseArgs ==
    /\ pc = "parse"
    /\ pc' = "setup"
    /\ UNCHANGED <<args, now, start_time, streamOpen, q, byte_buffer, frame, is_speech,
                   speech_started, non_speech_ms, consecutive_speech_ms, stdout,
                   exit_status, verdict, error, produced, vadScript, dequeuedStream,
                   slicedStream, classified, accepted, hist, finalCalls, lateChunks>>

\* line 38: parser.parse_args() rejects the command line (--model missing, a
\* non-numeric --samplerate, an unknown option): argparse writes the usage to
\* stderr and calls sys.exit(2); SystemExit is not an Exception, so the handler
\* of line 157 does not run
ParseArgsExits ==
    /\ pc = "parse"
    /\ pc' = "exited"
    /\ exit_status' = ArgparseExitStatus
    /\ error' = "usage"
    /\ UNCHANGED <<args, now, start_time, streamOpen, q, byte_buffer, frame, is_speech,
                   speech_started, non_speech_ms, consecutive_speech_ms, stdout,
                   verdict, produced, vadScript, dequeuedStream,
                   slicedStream, classified, accepted, hist, finalCalls, lateChunks>>

\* lines 16-18, 40-48: an import fails, the model path does not exist, or the
\* Vad, Model or KaldiRecognizer constructor raises
SetupRaises ==
    /\ pc \in {"parse", "setup"}
    /\ ExceptException("setup")

\* lines 40-79: collaborators built, segmenter state zeroed, start_time taken
Setup ==
    /\ pc = "setup"
    /\ q' = <<>>
    /\ speech_started' = FALSE
    /\ non_speech_ms' = 0
    /\ consecutive_speech_ms' = 0
    /\ start_time' = now
    /\ byte_buffer' = <<>>
    /\ pc' = "open"
    /\ UNCHANGED <<args, now, streamOpen, frame, is_speech, stdout, exit_status,
                   verdict, error, produced, vadScript, dequeuedStream, slicedStream,
                   classified, accepted, hist, finalCalls, lateChunks>>

\* lines 81-88: the stream starts; from here on the callback runs
OpenStream ==
    /\ pc = "open"
    /\ streamOpen' = TRUE
    /\ pc' = "check"
    /\ UNCHANGED <<args, now, start_time, q, byte_buffer, frame, is_speech,
                   speech_started, non_speech_ms, consecutive_speech_ms, stdout,
                   exit_status, verdict, error, produced, vadScript, dequeuedStream,
                   slicedStream, classified, accepted, hist, finalCalls, lateChunks>>

\* lines 81-88: the device cannot be opened
OpenStreamRaises ==
    /\ pc = "open"
    /\ ExceptException("stream")

\* lines 89-97: the max duration check at the top of the polling loop
CheckMaxDuration ==
    /\ pc = "check"
    /\ IF MaxDurationExceeded(elapsed, args.max_seconds)
       THEN /\ pc' = "final"
            /\ verdict' = "MaxDurationReached"
            /\ streamOpen' = FALSE
       ELSE /\ pc' = "get"
            /\ UNCHANGED <<verdict, streamOpen>>
    /\ UNCHANGED <<args, now, start_time, q, byte_buffer, frame, is_speech,
                   speech_started, non_speech_ms, consecutive_speech_ms, stdout,
                   exit_status, error, produced, vadScript, dequeuedStream,
                   slicedStream, classified, accepted, hist, finalCalls, lateChunks>>

\* the newest chunk taken from the queue instead of the oldest
GetDataNewestFirst ==
    /\ pc = "get"
    /\ q # <<>>
    /\ byte_buffer' = byte_buffer \o q[Len(q)]
    /\ dequeuedStream' = dequeuedStream \o q[Len(q)]
    /\ q' = SubSeq(q, 1, Len(q) - 1)
    /\ pc' = "slice"
    /\ lateChunks' = (IF elapsed > args.max_seconds THEN lateChunks + 1 ELSE lateChunks)
    /\ UNCHANGED <<args, now, start_time, streamOpen, frame, is_speech,
                   speech_started, non_speech_ms, consecutive_speech_ms, stdout,
                   exit_status, verdict, error, produced, vadScript,
                   slicedStream, classified, accepted, hist, finalCalls>>

\* lines 100-106: q.get returns a chunk, which is appended to byte_buffer
GetData ==
    /\ pc = "get"
    /\ q # <<>>
    /\ byte_buffer' = byte_buffer \o Head(q)
    /\ dequeuedStream' = dequeuedStream \o Head(q)
    /\ q' = Tail(q)
    /\ pc' = "slice"
    /\ lateChunks' = (IF elapsed > args.max_seconds THEN lateChunks + 1 ELSE lateChunks)
    /\ UNCHANGED <<args, now, start_time, streamOpen, frame, is_speech,
                   speech_started, non_speech_ms, consecutive_speech_ms, stdout,
                   exit_status, verdict, error, produced, vadScript,
                   slicedStream, classified, accepted, hist, finalCalls>>

\* q.get() without a timeout: the main thread stays blocked on the empty queue
GetBlocks ==
    /\ pc = "get"
    /\ q = <<>>
    /\ now < ClockLimit
    /\ now' = now + 1
    /\ UNCHANGED <<pc, args, start_time, streamOpen, q, byte_buffer, frame, is_speech,
                   speech_started, non_speech_ms, consecutive_speech_ms, stdout,
                   exit_status, verdict, error, produced, vadScript, dequeuedStream,
                   slicedStream, classified, accepted, hist, finalCalls, lateChunks>>

\* lines 100-104: nothing arrived within timeout=0.1: queue.Empty, continue
GetEmpty ==
    /\ pc = "get"
    /\ q = <<>>
    /\ now' = Min(now + PollTicks, ClockLimit)
    /\ pc' = "check"
    /\ UNCHANGED <<args, start_time, streamOpen, q, byte_buffer, frame, is_speech,
                   speech_started, non_speech_ms, consecutive_speech_ms, stdout,
                   exit_status, verdict, error, produced, vadScript, dequeuedStream,
                   slicedStream, classified, accepted, hist, finalCalls, lateChunks>>

\* line 110: frame = byte_buffer[:frame_bytes]
FirstFrame(buf, n) == Take(buf, n)

\* the buffer cut one byte too far
RestOfBufferOffByOne(buf, n) == Drop(buf, n + 1)

\* line 111: byte_buffer = byte_buffer[frame_bytes:]
RestOfBuffer(buf, n) == Drop(buf, n)

\* lines 109-111: a full frame is buffered: slice it off
SliceFrame ==
    /\ pc = "slice"
    /\ Len(byte_buffer) >= frame_bytes
    /\ frame' = FirstFrame(byte_buffer, frame_bytes)
    /\ byte_buffer' = RestOfBuffer(byte_buffer, frame_bytes)
    /\ slicedStream' = slicedStream \o frame'
    /\ pc' = "vad"
    /\ UNCHANGED <<args, now, start_time, streamOpen, q, is_speech,
                   speech_started, non_speech_ms, consecutive_speech_ms, stdout,
                   exit_status, verdict, error, produced, vadScript, dequeuedStream,
                   classified, accepted, hist, finalCalls, lateChunks>>

\* the inner loop ending at the queue wait, past the max duration check
BufferDrainedSkipsCheck ==
    /\ pc = "slice"
    /\ Len(byte_buffer) < frame_bytes
    /\ pc' = "get"
    /\ UNCHANGED <<args, now, start_time, streamOpen, q, byte_buffer, frame, is_speech,
                   speech_started, non_speech_ms, consecutive_speech_ms, stdout,
                   exit_status, verdict, error, produced, vadScript, dequeuedStream,
                   slicedStream, classified, accepted, hist, finalCalls, lateChunks>>

\* line 109: less than a frame left: back to the top of the polling loop
BufferDrained ==
    /\ pc = "slice"
    /\ Len(byte_buffer) < frame_bytes
    /\ pc' = "check"
    /\ UNCHANGED <<args, now, start_time, streamOpen, q, byte_buffer, frame, is_speech,
                   speech_started, non_speech_ms, consecutive_speech_ms, stdout,
                   exit_status, verdict, error, produced, vadScript, dequeuedStream,
                   slicedStream, classified, accepted, hist, finalCalls, lateChunks>>

\* line 114: is_speech = vad.is_speech(frame, args.samplerate)
VadCheck ==
    /\ pc = "vad"
    /\ \E b \in VadOutcomes(classified + 1) : is_speech' = b
    /\ classified' = classified + 1
    /\ pc' = "accept"
    /\ UNCHANGED <<args, now, start_time, streamOpen, q, byte_buffer, frame,
                   speech_started, non_speech_ms, consecutive_speech_ms, stdout,
                   exit_status, verdict, error, produced, vadScript, dequeuedStream,
                   slicedStream, accepted, hist, finalCalls, lateChunks>>

\* line 114: the classifier raises
VadRaises ==
    /\ pc = "vad"
    /\ ExceptException("vad")

\* only the frames classified as speech are fed to the recognizer
AcceptSpeechOnly ==
    /\ pc = "accept"
    /\ accepted' = (IF is_speech THEN accepted + 1 ELSE accepted)
    /\ pc' = "update"
    /\ UNCHANGED <<args, now, start_time, streamOpen, q, byte_buffer, frame, is_speech,
                   speech_started, non_speech_ms, consecutive_speech_ms, stdout,
                   exit_status, verdict, error, produced, vadScript, dequeuedStream,
                   slicedStream, classified, hist, finalCalls, lateChunks>>

\* line 117: rec.AcceptWaveform(frame)
AcceptWaveform ==
    /\ pc = "accept"
    /\ accepted' = accepted + 1
    /\ pc' = "update"
    /\ UNCHANGED <<args, now, start_time, streamOpen, q, byte_buffer, frame, is_speech,
                   speech_started, non_speech_ms, consecutive_speech_ms, stdout,
                   exit_status, verdict, error, produced, vadScript, dequeuedStream,
                   slicedStream, classified, hist, finalCalls, lateChunks>>

\* line 117: the recognizer raises
AcceptRaises ==
    /\ pc = "accept"
    /\ ExceptException("accept")

\* lines 120-156: status update, then the silence check; on the silence limit
\* StopIteration is raised and caught at line 155
UpdateFrame ==
    /\ pc = "update"
    /\ LET st == UpdateStatus(SegmenterState, is_speech) IN
          /\ speech_started' = st.speech_started
          /\ non_speech_ms' = st.non_speech_ms
          /\ consecutive_speech_ms' = st.consecutive_speech_ms
          /\ hist' = Append(hist, is_speech)
          /\ IF SilenceLimitReached(st.speech_started, st.non_speech_ms, args.silence_ms)
             THEN /\ verdict' = "SilenceTimeout"
                  /\ ExceptStopIteration
             ELSE /\ pc' = "slice"
                  /\ UNCHANGED <<verdict, streamOpen, stdout, exit_status, error>>
    /\ UNCHANGED <<args, now, start_time, q, byte_buffer, frame, is_speech,
                   produced, vadScript, dequeuedStream, slicedStream, classified,
                   accepted, finalCalls, lateChunks>>

Transcripts == {"", "words"}

\* lines 163-167: the final result is read and printed; main returns
FinalResult ==
    /\ pc = "final"
    /\ finalCalls' = finalCalls + 1
    /\ \E text \in Transcripts : stdout' = Append(stdout, ResultLine(text))
    /\ exit_status' = 0
    /\ pc' = "exited"
    /\ UNCHANGED <<args, now, start_time, streamOpen, q, byte_buffer, frame, is_speech,
                   speech_started, non_speech_ms, consecutive_speech_ms,
                   verdict, error, produced, vadScript, dequeuedStream,
                   slicedStream, classified, accepted, hist, lateChunks>>

\* lines 163-170: rec.FinalResult() or the parsing of its JSON raises
FinalResultRaises ==
    /\ pc = "final"
    /\ finalCalls' = finalCalls + 1
    /\ stdout' = Append(stdout, ErrorLine("Result parsing error"))
    /\ exit_status' = 1
    /\ error' = "parse"
    /\ pc' = "exited"
    /\ UNCHANGED <<args, now, start_time, streamOpen, q, byte_buffer, frame, is_speech,
                   speech_started, non_speech_ms, consecutive_speech_ms,
                   verdict, produced, vadScript, dequeuedStream,
                   slicedStream, classified, accepted, hist, lateChunks>>

MainThread ==
    \/ ParseArgs \/ ParseArgsExits \/ SetupRaises \/ Setup
    \/ OpenStream \/ OpenStreamRaises
    \/ CheckMaxDuration \/ GetData \/ GetEmpty
    \/ SliceFrame \/ BufferDrained
    \/ VadCheck \/ VadRaises \/ AcceptWaveform \/ AcceptRaises
    \/ UpdateFrame
    \/ FinalResult \/ FinalResultRaises

Next ==
    \/ ParseArgs \/ ParseArgsExits \/ SetupRaises \/ Setup
    \/ OpenStream \/ OpenStreamRaises
    \/ CheckMaxDuration \/ GetData \/ GetEmpty
    \/ SliceFrame \/ BufferDrained
    \/ VadCheck \/ VadRaises \/ AcceptWaveform \/ AcceptRaises
    \/ UpdateFrame
    \/ FinalResult \/ FinalResultRaises
    \/ Callback
    \/ Tick

Spec == Init /\ [][Next]_vars

\* the wall clock keeps advancing and the main thread keeps running
FairSpec == InitFair /\ [][Next]_vars /\ WF_vars(Tick) /\ WF_vars(MainThread)

ConfigSpec == InitConfig /\ [][Next]_vars

ScenarioSpec == InitScenario /\ [][Next]_vars

----------------------------------------------------------------------------
(* Properties of a classification sequence, computed from the whole sequence *)

\* h holds n consecutive speech frames somewhere
HasRun(h, n) == \E i \in n..Len(h) : \A j \in (i - n + 1)..i : h[j]

\* length of the speech run h ends with
TrailingRun(h) ==
    LET stops == {i \in 1..Len(h) : ~h[i]}
        last  == IF stops = {} THEN 0 ELSE CHOOSE i \in stops : \A j \in stops : j <= i
    IN  Len(h) - last

\* number of non-speech frames after the last frame that completed or
\* continued a run of n speech frames
SilentSinceRun(h, n) ==
    LET ends == {i \in n..Len(h) : \A j \in (i - n + 1)..i : h[j]}
        last == IF ends = {} THEN 0 ELSE CHOOSE i \in ends : \A j \in ends : j <= i
    IN  Cardinality({j \in (last + 1)..Len(h) : ~h[j]})

Ceil(a, b) == (a + b - 1) \div b

AbortErrors == {"setup", "stream", "vad", "accept"}

FrameStep ==
    classified' # classified \/ accepted' # accepted \/ hist' # hist
        \/ slicedStream' # slicedStream

----------------------------------------------------------------------------
(* Claims *)

\* C1: speech_started is true exactly from the first frame that completes a
\* run of 5 consecutive speech frames (150 ms at 30 ms per frame) - not after
\* 1 to 4 of them - and consecutive_speech_ms is the length of the current
\* run of speech frames, 0 after a non-speech frame.
C1_DebounceSpeechStart ==
    /\ speech_started <=> HasRun(hist, 5)
    /\ consecutive_speech_ms = 30 * TrailingRun(hist)

C1_Witness ==
    /\ speech_started
    /\ Len(hist) = 5

\* C2: as long as the observed frames hold no 5 consecutive speech frames,
\* speech_started is false, the silence timeout has not fired, and a session
\* that left the capture loop by a verdict left it by MaxDurationReached.
C2_NoStartWithoutRun ==
    ~HasRun(hist, 5) =>
        /\ ~speech_started
        /\ verdict # "SilenceTimeout"
        /\ (pc \in {"final", "exited"} /\ error \in {"none", "parse"}
               => verdict = "MaxDurationReached")

C2_Witness ==
    /\ pc = "exited"
    /\ verdict = "MaxDurationReached"
    /\ Len(hist) >= 6
    /\ ~HasRun(hist, 5)
    /\ HasRun(hist, 4)

\* C3: the loop is left by SilenceTimeout if and only if speech_started holds
\* and non_speech_ms >= silence_ms (equality stops); while the loop runs with
\* speech_started, non_speech_ms < silence_ms; and non_speech_ms is the
\* silence accumulated since the last confirmed run of speech.
C3_SilenceTimeoutExact ==
    /\ verdict = "SilenceTimeout" <=>
          (speech_started /\ non_speech_ms >= args.silence_ms)
    /\ (InLoop /\ speech_started) => non_speech_ms < args.silence_ms
    /\ speech_started => non_speech_ms = 30 * SilentSinceRun(hist, 5)

C3_Witness ==
    /\ verdict = "SilenceTimeout"
    /\ args.silence_ms > 0
    /\ non_speech_ms = args.silence_ms

\* C4 as stated: the max-duration stop fires exactly when elapsed >
\* max_seconds, and no frame is sliced, classified, fed or observed once
\* elapsed exceeds max_seconds.
C4_HardCeilingMidChunk ==
    [][ /\ (pc = "check" /\ pc' # "check") =>
              (verdict' = "MaxDurationReached" <=> elapsed > args.max_seconds)
        /\ FrameStep => ~(elapsed > args.max_seconds) ]_vars

\* C4 as amended: the max-duration check runs at the top of each polling
\* cycle; there it stops the session exactly when elapsed > max_seconds
\* (elapsed = max_seconds continues), whatever speech_started is; once it has
\* fired no chunk is dequeued and no frame is sliced, classified, fed or
\* observed.
C4_MaxDurationAtPoll ==
    [][ /\ (pc = "check" /\ pc' # "check") =>
              /\ (verdict' = "MaxDurationReached" <=> elapsed > args.max_seconds)
              /\ (pc' = "final" <=> elapsed > args.max_seconds)
        /\ verdict = "MaxDurationReached" =>
              /\ ~FrameStep
              /\ dequeuedStream' = dequeuedStream
              /\ UNCHANGED <<speech_started, non_speech_ms, consecutive_speech_ms>>
      ]_vars

C4_Witness ==
    /\ verdict = "MaxDurationReached"
    /\ speech_started
    /\ q # <<>>
    /\ pc = "exited"

\* C5: if the wall clock keeps advancing and the main thread keeps running,
\* every session eventually ends, whatever the producer does.
C5_Termination == <>(pc = "exited")

C5_Witness ==
    /\ pc = "exited"
    /\ verdict = "MaxDurationReached"
    /\ produced = 0

\* C6: a session that has ended has written exactly one line to the primary
\* output, and no session ever writes more than one.
C6_ExactlyOneResultLine ==
    /\ Len(stdout) <= 1
    /\ pc = "exited" => Len(stdout) = 1

\* C7: rec.FinalResult is called at most once, never while the capture loop
\* runs, exactly once in a session stopped by either verdict, and no frame is
\* accepted after it.
C7_FinalizeOnceAfterLastAccept ==
    /\ [](/\ finalCalls <= 1
          /\ InLoop => finalCalls = 0
          /\ (pc = "exited" /\ verdict # "Continue") => finalCalls = 1)
    /\ [][finalCalls >= 1 => accepted' = accepted]_vars

C7_Witness ==
    /\ pc = "exited"
    /\ verdict = "SilenceTimeout"
    /\ finalCalls = 1
    /\ accepted >= 5

\* C8: an error raised by the setup, the stream, the classifier or the
\* recognizer feed ends the session in the same step: the segmenter state and
\* the frame counts stay as they were, the only output line is
\* {text: "", error}, the exit status is non-zero, the final result is never
\* requested, and nothing happens afterwards.
C8_ErrorAbort ==
    /\ [](error \in AbortErrors =>
             /\ pc = "exited"
             /\ stdout = <<ErrorLine(error)>>
             /\ exit_status > 0
             /\ finalCalls = 0
             /\ Len(hist) = accepted
             /\ classified = (IF error = "accept" THEN accepted + 1 ELSE accepted))
    /\ [][(error' \in AbortErrors \/ error \in AbortErrors) =>
             /\ ~FrameStep
             /\ UNCHANGED <<speech_started, non_speech_ms, consecutive_speech_ms,
                            byte_buffer, dequeuedStream, finalCalls>>]_vars

C8_Witness ==
    /\ error = "vad"
    /\ speech_started
    /\ Len(byte_buffer) >= frame_bytes

\* C9: the frames sliced so far followed by byte_buffer are the chunks
\* dequeued so far, byte for byte; every sliced frame is frame_bytes long;
\* and when the main thread is back at the top of the polling loop less than
\* one frame is buffered.
C9_LosslessFifoSlicing ==
    /\ slicedStream \o byte_buffer = dequeuedStream
    /\ Len(slicedStream) % frame_bytes = 0
    /\ Len(frame) \in {0, frame_bytes}
    /\ frame # <<>> =>
          frame = SubSeq(slicedStream, Len(slicedStream) - frame_bytes + 1,
                         Len(slicedStream))
    /\ pc \in {"check", "get"} => Len(byte_buffer) < frame_bytes

C9_Witness ==
    /\ pc = "get"
    /\ Len(slicedStream) >= 2 * frame_bytes
    /\ byte_buffer # <<>>

\* C10: with k >= 5 speech frames followed by non-speech frames only and
\* silence_ms > 0, the silence stop comes exactly at frame
\* k + ceil(silence_ms / 30) - frame 84 for k = 10 and silence_ms = 2200 - and
\* the final result is then requested once.
C10_SilenceStopPosition ==
    LET stopAt == vadScript + Ceil(args.silence_ms, frame_duration_ms) IN
    /\ verdict = "SilenceTimeout" <=> Len(hist) >= stopAt
    /\ Len(hist) <= stopAt
    /\ (vadScript = 10 /\ args.silence_ms = 2200 /\ verdict = "SilenceTimeout")
          => Len(hist) = 84
    /\ (verdict = "SilenceTimeout" /\ pc = "exited") => finalCalls = 1

C10_Witness ==
    /\ vadScript = 10
    /\ args.silence_ms = 2200
    /\ verdict = "SilenceTimeout"
    /\ Len(hist) = 84
    /\ finalCalls = 1

\* the segmenter's state as the specification names it
SegState ==
    IF verdict # "Continue" THEN "Stopped"
    ELSE IF speech_started THEN "Speaking" ELSE "Idle"

\* C11 as stated: the only transitions are Idle->Speaking, Speaking->Stopped
\* (SilenceTimeout) and Idle or Speaking->Stopped (MaxDurationReached);
\* speech_started never falls back to false; Stopped is terminal and no frame
\* is observed after it.
C11_ThreeStateMachine ==
    [][ /\ SegState # SegState' =>
              \/ SegState = "Idle" /\ SegState' = "Speaking"
              \/ SegState = "Speaking" /\ SegState' = "Stopped"
                    /\ verdict' \in {"SilenceTimeout", "MaxDurationReached"}
              \/ SegState = "Idle" /\ SegState' = "Stopped"
                    /\ verdict' = "MaxDurationReached"
        /\ speech_started => speech_started'
        /\ SegState = "Stopped" =>
              /\ SegState' = "Stopped"
              /\ verdict' = verdict
              /\ hist' = hist
              /\ UNCHANGED <<speech_started, non_speech_ms, consecutive_speech_ms>>
      ]_vars

\* C11 as amended: the same machine, with one more transition: when
\* silence_ms <= 0 the speech frame that confirms the debounce sets
\* speech_started and stops with SilenceTimeout in the same step, so the
\* segmenter goes from Idle to Stopped without being seen in Speaking.
C11_StateMachineWithZeroSilence ==
    [][ /\ SegState # SegState' =>
              \/ SegState = "Idle" /\ SegState' = "Speaking"
                    /\ TrailingRun(hist') >= 5
              \/ SegState = "Speaking" /\ SegState' = "Stopped"
                    /\ verdict' \in {"SilenceTimeout", "MaxDurationReached"}
              \/ SegState = "Idle" /\ SegState' = "Stopped"
                    /\ verdict' = "MaxDurationReached"
              \/ SegState = "Idle" /\ SegState' = "Stopped"
                    /\ verdict' = "SilenceTimeout"
                    /\ args.silence_ms <= 0
                    /\ speech_started'
                    /\ TrailingRun(hist') >= 5
        /\ speech_started => speech_started'
        /\ SegState = "Stopped" =>
              /\ SegState' = "Stopped"
              /\ verdict' = verdict
              /\ hist' = hist
              /\ UNCHANGED <<speech_started, non_speech_ms, consecutive_speech_ms>>
      ]_vars

C11_Witness ==
    /\ SegState = "Stopped"
    /\ verdict = "SilenceTimeout"
    /\ args.silence_ms = 0
    /\ Len(hist) = 5
    /\ pc = "exited"

C14_IntakeCeasesOnStop ==
    [][ verdict # "Continue" =>
           /\ ~FrameStep
           /\ UNCHANGED <<q, byte_buffer, dequeuedStream, frame>>
      ]_vars

C14_Witness ==
    /\ verdict = "SilenceTimeout"
    /\ pc = "exited"
    /\ Len(byte_buffer) >= frame_bytes
    /\ q # <<>>

SlicedFrames == Len(slicedStream) \div frame_bytes

\* C15: each sliced frame goes to the classifier, then to the recognizer,
\* then to the status update, once each: between frames the numbers of frames
\* sliced, classified, accepted and observed are equal (also after the frame
\* that stops for silence), and inside a frame they differ by the one frame
\* in hand, in that order.
C15_ClassifyThenAcceptThenObserve ==
    /\ pc = "vad" =>
          /\ classified = SlicedFrames - 1
          /\ accepted = classified
          /\ Len(hist) = accepted
    /\ pc = "accept" =>
          /\ classified = SlicedFrames
          /\ accepted = classified - 1
          /\ Len(hist) = accepted
    /\ pc = "update" =>
          /\ classified = SlicedFrames
          /\ accepted = classified
          /\ Len(hist) = accepted - 1
    /\ (pc \in {"check", "get", "slice", "final"}
          \/ (pc = "exited" /\ error \notin {"vad", "accept"})) =>
          /\ classified = SlicedFrames
          /\ accepted = classified
          /\ Len(hist) = accepted

C15_Witness ==
    /\ verdict = "SilenceTimeout"
    /\ pc = "final"
    /\ accepted = 7
    /\ classified = 7
    /\ SlicedFrames = 7

RECURSIVE Flatten(_)
Flatten(chunks) ==
    IF chunks = <<>> THEN <<>> ELSE Head(chunks) \o Flatten(Tail(chunks))

\* C16: the chunks dequeued so far followed by the chunks still queued are
\* the captured stream in the order the callback enqueued it, nothing lost,
\* repeated or reordered; a step of the callback changes the queue only (not
\* the segmenter state, byte_buffer or the main thread's position); and the
\* callback can enqueue wherever the main thread stands while the stream is
\* open.
C16_QueueHandoff ==
    /\ [](/\ dequeuedStream \o Flatten(q) = Iota(0, produced)
          /\ (streamOpen /\ Len(q) < MaxQueue
                 /\ produced + frame_bytes <= FrameLimit * frame_bytes)
                => ENABLED Callback)
    /\ [][ produced' # produced =>
              /\ Len(q') = Len(q) + 1
              /\ SubSeq(q', 1, Len(q)) = q
              /\ UNCHANGED <<pc, byte_buffer, frame, is_speech, speech_started,
                             non_speech_ms, consecutive_speech_ms, dequeuedStream,
                             slicedStream, hist, verdict>>
       ]_vars
    /\ [][ dequeuedStream' # dequeuedStream =>
              /\ q # <<>>
              /\ q' = Tail(q)
              /\ dequeuedStream' = dequeuedStream \o Head(q)
              /\ produced' = produced
       ]_vars

C16_Witness ==
    /\ Len(q) = 2
    /\ pc = "update"
    /\ Len(dequeuedStream) > frame_bytes
    /\ Len(hist) >= 2

\* C18: while speech_started is false non_speech_ms is 0, and
\* consecutive_speech_ms and non_speech_ms are non-negative multiples of the
\* 30 ms frame duration.
C18_CountersWellFormed ==
    /\ ~speech_started => non_speech_ms = 0
    /\ non_speech_ms >= 0
    /\ non_speech_ms % 30 = 0
    /\ consecutive_speech_ms >= 0
    /\ consecutive_speech_ms % 30 = 0

C18_Witness ==
    /\ ~speech_started
    /\ Len(hist) = 7
    /\ ~hist[7]
    /\ ~hist[1]
    /\ non_speech_ms = 0

\* C19: with silence_ms > 0 the frame on which the session stops for silence
\* is a non-speech frame.
C19_SilenceStopOnNonSpeechFrame ==
    (verdict = "SilenceTimeout" /\ args.silence_ms > 0) =>
        /\ hist # <<>>
        /\ ~hist[Len(hist)]
        /\ ~is_speech

C19_Witness ==
    /\ verdict = "SilenceTimeout"
    /\ args.silence_ms > 0
    /\ Len(hist) = 7
    /\ hist[1]
    /\ ~hist[7]

\* C17: in a session that has passed its setup and runs the capture loop,
\* frame duration x sample rate is an integer number of samples:
\* frame_samples * 1000 = samplerate * frame_duration_ms.
C17_IntegerSampleCount ==
    InLoop => frame_samples * 1000 = args.samplerate * frame_duration_ms

\* C20: at most one chunk is dequeued after elapsed has exceeded
\* max_seconds, and the max duration check that follows it stops the session
\* with MaxDurationReached (unless a silence stop or an error ended it first).
C20_OverrunAtMostOneChunk ==
    /\ [](lateChunks <= 1)
    /\ [][ (pc = "check" /\ pc' # "check" /\ lateChunks = 1) =>
              (verdict' = "MaxDurationReached" /\ pc' = "final") ]_vars

C20_Witness ==
    /\ lateChunks = 1
    /\ verdict = "MaxDurationReached"
    /\ pc = "exited"
    /\ Len(hist) >= 2
    /\ q # <<>>

====
